---- MODULE Spec2Model ----
(***************************************************************************)
(* A model of examples/contrib/graph_lottery_ticket.py: the script's main  *)
(* flow (argument parsing, dataset loading, edge-data generation, model    *)
(* selection, link-prediction wrapping, loss selection, GLTSearch          *)
(* construction, prune) and the baseline() training function.              *)
(***************************************************************************)
EXTENDS Integers, Sequences, FiniteSets, TLC

\* ------------------------------------------------------------------------
\* Bounds of the model
\* ------------------------------------------------------------------------
\* largest number of columns of edge_index in a loaded graph
MaxEdges == 2
\* validation scores are the levels 0..MaxVal (0 stands for 0.0)
MaxVal == 2

\* ------------------------------------------------------------------------
\* Program constants
\* ------------------------------------------------------------------------
\* tqdm.trange(200)
NumEpochs == 200

\* ------------------------------------------------------------------------
\* Values
\* ------------------------------------------------------------------------
\* args.task when --task is omitted (argparse default None)
NoneTask == "<None>"
Tasks == {"node_classification", "link_prediction", "graph_classification", NoneTask}

Nodes == 1..2
NodePairs == Nodes \X Nodes
TestScores == {0, 1}
ValScores == 0..MaxVal
\* "no score": below every score level
NoScore == 0 - 1
\* abstract tensor contents
ParamValues == {0, 1}
ParamNames == {"weight"}

\* strings are sequences of one-character strings
LowerLetters == {"g", "c", "n", "i", "a", "t", "s", "e"}
ToUpper == ("g" :> "G") @@ ("c" :> "C") @@ ("n" :> "N") @@ ("i" :> "I") @@
           ("a" :> "A") @@ ("t" :> "T") @@ ("s" :> "S") @@ ("e" :> "E")
CaseVariants(w) ==
    { [i \in 1..Len(w) |-> IF i \in U THEN ToUpper[w[i]] ELSE w[i]] :
        U \in SUBSET (1..Len(w)) }
gcn == <<"g", "c", "n">>
gin == <<"g", "i", "n">>
gat == <<"g", "a", "t">>
ModelWords == {gcn, gin, gat, <<"g", "c">>, <<"s", "a", "g", "e">>, <<>>}
ModelNames == UNION { CaseVariants(w) : w \in ModelWords }

\* all sequences without repetition over S of length at most n
RECURSIVE DistinctSeqs(_, _)
DistinctSeqs(S, n) ==
    IF n = 0 THEN {<<>>}
    ELSE LET shorter == DistinctSeqs(S, n - 1)
         IN shorter \cup
            UNION { { Append(s, x) : x \in S \ { s[i] : i \in 1..Len(s) } } :
                      s \in { t \in shorter : Len(t) = n - 1 } }
Range(s) == { s[i] : i \in 1..Len(s) }
Graphs == DistinctSeqs(NodePairs, MaxEdges)

NoModule == [cls |-> "None"]
NoTrainer == [constructed |-> FALSE]

VARIABLES
    \* ---- the script (__main__)
    m_pc,            \* position in the script
    args,            \* parsed arguments: [task, model]
    data,            \* the graph: edge_index, and the attributes set on it later
    gnn,             \* the module bound to the name gnn
    ctor_calls,      \* model constructors called so far
    loss_fn,         \* the script's loss_fn
    trainer,         \* the GLTSearch object
    trace,           \* the calls the script has made, in order
    m_error,         \* the exception the script raised
    \* ---- one call of baseline(model, graph, task)
    b_pc,            \* position in baseline
    b_task,          \* the task argument
    store,           \* tensor storage: tensor id -> contents
    model_params,    \* the model's parameters: name -> tensor id
    initial_params,  \* the dict returned by state_dict(): name -> tensor id
    entry_value,     \* contents of every parameter when baseline was called
    b_loss_fn,       \* baseline's loss_fn
    epoch,           \* the loop variable
    mode,            \* model.training: "train" or "eval"
    grad,            \* state of the gradients
    best_val_score,
    final_test_score,
    firstTest,       \* history: val score -> test score of the first epoch that had it
    opt_steps,       \* optimizer.step() calls so far
    evals,           \* evaluations so far
    last_eval_steps, \* optimizer steps taken when the last evaluation ran
    epochLog,        \* the calls of the current epoch, in order
    b_error,         \* the exception baseline raised
    printed          \* the value printed at the end

mainVars == <<m_pc, args, data, gnn, ctor_calls, loss_fn, trainer, trace, m_error>>
baseVars == <<b_pc, b_task, store, model_params, initial_params, entry_value,
              b_loss_fn, epoch, mode, grad, best_val_score, final_test_score,
              firstTest, opt_steps, evals, last_eval_steps, epochLog, b_error,
              printed>>
vars == <<mainVars, baseVars>>

\* ------------------------------------------------------------------------
\* Pure helpers of the script
\* ------------------------------------------------------------------------
\* str.lower()
LowerChar(ch) ==
    IF \E l \in LowerLetters : ToUpper[l] = ch
    THEN CHOOSE l \in LowerLetters : ToUpper[l] = ch
    ELSE ch
Lower(s) == [i \in 1..Len(s) |-> LowerChar(s[i])]

\* torch_geometric.utils.negative_sampling(edge_index): some node pairs that
\* are not edges, at most as many as there are edges
NegativeSamples(edge_index) ==
    DistinctSeqs(NodePairs \ Range(edge_index), Len(edge_index))

Repeat(x, n) == [i \in 1..n |-> x]

\* generate_edge_data(dataset), given the sampled negative edges
generate_edge_data(dataset, negative_edges) ==
    LET edge_labels == Repeat(0, Len(negative_edges)) \o
                       Repeat(1, Len(dataset.edge_index))
    IN [dataset EXCEPT !.edges = dataset.edge_index \o negative_edges,
                       !.edge_labels = edge_labels,
                       !.attrs = dataset.attrs \cup {"edges", "edge_labels"}]

\* if args.task == "link_prediction": generate_edge_data(data)
NeedsEdgeData(task) == task = "link_prediction"

\* SelectModel comparing args.model itself, without lower()
SelectModel_CaseSensitive(name) ==
    IF name = gcn THEN "GCN"
    ELSE IF name = gin THEN "GIN"
    ELSE IF name = gat THEN "GAT"
    ELSE "ValueError"

\* the if/elif/else chain over args.model.lower()
SelectModel(name) ==
    IF Lower(name) = gcn THEN "GCN"
    ELSE IF Lower(name) = gin THEN "GIN"
    ELSE IF Lower(name) = gat THEN "GAT"
    ELSE "ValueError"

\* NeedsWrap testing for "not node classification" instead
NeedsWrap_NotNodeClassification(task) == task /= "node_classification"

\* if args.task == "link_prediction": gnn = LinkPredictor(gnn)
NeedsWrap(task) == task = "link_prediction"
LinkPredictor(model) == [cls |-> "LinkPredictor", model |-> model]

\* MainLossFn branching on the other task string
MainLossFn_OtherBranch(task) ==
    IF task = "node_classification" THEN "cross_entropy"
    ELSE "binary_cross_entropy_with_logits"

\* the script's choice of loss_fn
MainLossFn(task) ==
    IF task = "link_prediction" THEN "binary_cross_entropy_with_logits"
    ELSE "cross_entropy"

\* ------------------------------------------------------------------------
\* The script
\* ------------------------------------------------------------------------
BaseIdle ==
    /\ b_pc = "idle"
    /\ b_task = NoneTask
    /\ store = <<0>>
    /\ model_params = [n \in ParamNames |-> 1]
    /\ initial_params = [n \in ParamNames |-> 0]
    /\ entry_value = 0
    /\ b_loss_fn = "unset"
    /\ epoch = 0
    /\ mode = "train"
    /\ grad = "unset"
    /\ best_val_score = 0
    /\ final_test_score = 0
    /\ firstTest = [v \in ValScores |-> NoScore]
    /\ opt_steps = 0
    /\ evals = 0
    /\ last_eval_steps = 0
    /\ epochLog = <<>>
    /\ b_error = "none"
    /\ printed = NoScore

MainIdle ==
    /\ args = [task |-> NoneTask, model |-> gcn]
    /\ data = [edge_index |-> <<>>, attrs |-> {}, edges |-> <<>>, edge_labels |-> <<>>]
    /\ gnn = NoModule
    /\ ctor_calls = <<>>
    /\ loss_fn = "unset"
    /\ trainer = NoTrainer
    /\ trace = <<>>
    /\ m_error = "none"

Init ==
    /\ m_pc = "parse"
    /\ MainIdle
    /\ BaseIdle

\* parser.parse_args()
ParseArgs ==
    /\ m_pc = "parse"
    /\ \E t \in Tasks, m \in ModelNames : args' = [task |-> t, model |-> m]
    /\ trace' = Append(trace, "parse_args")
    /\ m_pc' = "load"
    /\ UNCHANGED <<data, gnn, ctor_calls, loss_fn, trainer, m_error, baseVars>>

\* dataset = Planetoid(...); data = dataset[0].to(device)
LoadDataset ==
    /\ m_pc = "load"
    /\ \E g \in Graphs :
         data' = [edge_index |-> g, attrs |-> {}, edges |-> <<>>, edge_labels |-> <<>>]
    /\ trace' = Append(trace, "load_dataset")
    /\ m_pc' = "edge_data"
    /\ UNCHANGED <<args, gnn, ctor_calls, loss_fn, trainer, m_error, baseVars>>

\* if args.task == "link_prediction": generate_edge_data(data)
EdgeData ==
    /\ m_pc = "edge_data"
    /\ IF NeedsEdgeData(args.task)
       THEN /\ \E neg \in NegativeSamples(data.edge_index) :
                 data' = generate_edge_data(data, neg)
            /\ trace' = Append(trace, "generate_edge_data")
       ELSE UNCHANGED <<data, trace>>
    /\ m_pc' = "build"
    /\ UNCHANGED <<args, gnn, ctor_calls, loss_fn, trainer, m_error, baseVars>>

\* the model selection: one of GCN(...), GIN(...), GAT(...) or ValueError
BuildModel ==
    /\ m_pc = "build"
    /\ LET k == SelectModel(args.model)
       IN IF k = "ValueError"
          THEN /\ m_error' = "ValueError"
               /\ m_pc' = "raised"
               /\ UNCHANGED <<gnn, ctor_calls, trace>>
          ELSE /\ gnn' = [cls |-> k]
               /\ ctor_calls' = Append(ctor_calls, k)
               /\ trace' = Append(trace, "build_model")
               /\ m_pc' = "wrap"
               /\ UNCHANGED m_error
    /\ UNCHANGED <<args, data, loss_fn, trainer, baseVars>>

\* if args.task == "link_prediction": gnn = LinkPredictor(gnn)
\* (the call of baseline that follows in the file is commented out)
Wrap ==
    /\ m_pc = "wrap"
    /\ IF NeedsWrap(args.task)
       THEN /\ gnn' = LinkPredictor(gnn)
            /\ trace' = Append(trace, "wrap")
       ELSE UNCHANGED <<gnn, trace>>
    /\ m_pc' = "loss"
    /\ UNCHANGED <<args, data, ctor_calls, loss_fn, trainer, m_error, baseVars>>

\* the script's if/else that sets loss_fn
SelectLoss ==
    /\ m_pc = "loss"
    /\ loss_fn' = MainLossFn(args.task)
    /\ m_pc' = "construct"
    /\ UNCHANGED <<args, data, gnn, ctor_calls, trainer, trace, m_error, baseVars>>

\* trainer = GLTSearch(task=args.task, module=gnn, graph=data, ..., loss_fn=loss_fn)
ConstructTrainer ==
    /\ m_pc = "construct"
    /\ trainer' = [constructed |-> TRUE, task |-> args.task, module |-> gnn,
                   graph |-> data, loss_fn |-> loss_fn]
    /\ trace' = Append(trace, "GLTSearch")
    /\ m_pc' = "prune"
    /\ UNCHANGED <<args, data, gnn, ctor_calls, loss_fn, m_error, baseVars>>

\* initial_params, mask_dict = trainer.prune()
Prune ==
    /\ m_pc = "prune"
    /\ trace' = Append(trace, "prune")
    /\ m_pc' = "done"
    /\ UNCHANGED <<args, data, gnn, ctor_calls, loss_fn, trainer, m_error, baseVars>>

Next ==
    \/ ParseArgs
    \/ LoadDataset
    \/ EdgeData
    \/ BuildModel
    \/ Wrap
    \/ SelectLoss
    \/ ConstructTrainer
    \/ Prune

Spec == Init /\ [][Next]_vars

\* ------------------------------------------------------------------------
\* baseline(model, graph, task)
\* ------------------------------------------------------------------------
\* model.state_dict(): the returned dict holds the parameters' own tensors
\* (references to the same storage), not copies
state_dict(params) == [n \in DOMAIN params |-> params[n]]

\* model.load_state_dict(d): copies the contents of d[n] into parameter n
load_state_dict(st, params, d) ==
    [id \in DOMAIN st |->
        IF \E n \in DOMAIN params : params[n] = id
        THEN st[d[CHOOSE n \in DOMAIN params : params[n] = id]]
        ELSE st[id]]

\* baseline's choice of loss_fn
BaselineLossFn(task) ==
    IF task = "link_prediction" THEN "binary_cross_entropy_with_logits"
    ELSE "cross_entropy"

\* RangeHasNext with an off-by-one upper end
RangeHasNext_OffByOne(e) == e <= NumEpochs

\* for epoch in trange(200): is there an iteration with index e
RangeHasNext(e) == e < NumEpochs

\* TrainBranch whose else falls back to node classification
TrainBranch_Fallback(task) ==
    IF task = "link_prediction" THEN "link_prediction"
    ELSE "node_classification"

\* the if/elif/else over task in the training half of an epoch
TrainBranch(task) ==
    IF task = "node_classification" THEN "node_classification"
    ELSE IF task = "link_prediction" THEN "link_prediction"
    ELSE "ValueError"

\* the if/elif/else over task in the evaluation half of an epoch
EvalBranch(task) ==
    IF task = "node_classification" THEN "node_classification"
    ELSE IF task = "link_prediction" THEN "link_prediction"
    ELSE "ValueError"

\* TrackBest updating on ties too (>= for >)
TrackBest_OnTie(best, final, val_score, test_score) ==
    IF val_score >= best THEN <<val_score, test_score>> ELSE <<best, final>>

\* if val_score > best_val_score: best_val_score, final_test_score = ...
TrackBest(best, final, val_score, test_score) ==
    IF val_score > best THEN <<val_score, test_score>> ELSE <<best, final>>

BaselineInit ==
    /\ m_pc = "idle"
    /\ MainIdle
    /\ b_pc = "enter"
    /\ b_task \in Tasks
    /\ entry_value \in ParamValues
    /\ store = <<entry_value>>
    /\ model_params = [n \in ParamNames |-> 1]
    /\ initial_params = [n \in ParamNames |-> 0]
    /\ b_loss_fn = "unset"
    /\ epoch = 0
    /\ mode \in {"train", "eval"}
    /\ grad = "unset"
    /\ best_val_score = 0
    /\ final_test_score = 0
    /\ firstTest = [v \in ValScores |-> NoScore]
    /\ opt_steps = 0
    /\ evals = 0
    /\ last_eval_steps = 0
    /\ epochLog = <<>>
    /\ b_error = "none"
    /\ printed = NoScore

\* initial_params, best_val_score, final_test_score, optimizer, loss_fn, and
\* the start of the loop
Enter ==
    /\ b_pc = "enter"
    /\ initial_params' = state_dict(model_params)
    /\ best_val_score' = 0
    /\ final_test_score' = 0
    /\ b_loss_fn' = BaselineLossFn(b_task)
    /\ epoch' = 0
    /\ b_pc' = IF RangeHasNext(0) THEN "train" ELSE "restore"
    /\ UNCHANGED <<b_task, store, model_params, entry_value, mode, grad, firstTest,
                   opt_steps, evals, last_eval_steps, epochLog, b_error, printed,
                   mainVars>>

\* model.train()
Train ==
    /\ b_pc = "train"
    /\ mode' = "train"
    /\ epochLog' = <<"train">>
    /\ b_pc' = "zero_grad"
    /\ UNCHANGED <<b_task, store, model_params, initial_params, entry_value,
                   b_loss_fn, epoch, grad, best_val_score, final_test_score,
                   firstTest, opt_steps, evals, last_eval_steps, b_error, printed,
                   mainVars>>

\* optimizer.zero_grad()
ZeroGrad ==
    /\ b_pc = "zero_grad"
    /\ grad' = "cleared"
    /\ epochLog' = Append(epochLog, "zero_grad")
    /\ b_pc' = "forward"
    /\ UNCHANGED <<b_task, store, model_params, initial_params, entry_value,
                   b_loss_fn, epoch, mode, best_val_score, final_test_score,
                   firstTest, opt_steps, evals, last_eval_steps, b_error, printed,
                   mainVars>>

\* the forward pass and the loss of the task, or ValueError
Forward ==
    /\ b_pc = "forward"
    /\ IF TrainBranch(b_task) = "ValueError"
       THEN /\ b_error' = "ValueError"
            /\ b_pc' = "raised"
            /\ UNCHANGED epochLog
       ELSE /\ epochLog' = Append(epochLog, "forward")
            /\ b_pc' = "backward"
            /\ UNCHANGED b_error
    /\ UNCHANGED <<b_task, store, model_params, initial_params, entry_value,
                   b_loss_fn, epoch, mode, grad, best_val_score, final_test_score,
                   firstTest, opt_steps, evals, last_eval_steps, printed, mainVars>>

\* loss.backward()
Backward ==
    /\ b_pc = "backward"
    /\ grad' = "computed"
    /\ epochLog' = Append(epochLog, "backward")
    /\ b_pc' = "step"
    /\ UNCHANGED <<b_task, store, model_params, initial_params, entry_value,
                   b_loss_fn, epoch, mode, best_val_score, final_test_score,
                   firstTest, opt_steps, evals, last_eval_steps, b_error, printed,
                   mainVars>>

\* optimizer.step(): Adam updates every parameter tensor in place
Step ==
    /\ b_pc = "step"
    /\ \E v \in ParamValues :
         store' = [id \in DOMAIN store |->
                     IF \E n \in ParamNames : model_params[n] = id
                     THEN v ELSE store[id]]
    /\ opt_steps' = opt_steps + 1
    /\ epochLog' = Append(epochLog, "step")
    /\ b_pc' = "eval"
    /\ UNCHANGED <<b_task, model_params, initial_params, entry_value, b_loss_fn,
                   epoch, mode, grad, best_val_score, final_test_score, firstTest,
                   evals, last_eval_steps, b_error, printed, mainVars>>

\* model.eval()
EvalMode ==
    /\ b_pc = "eval"
    /\ mode' = "eval"
    /\ epochLog' = Append(epochLog, "eval")
    /\ b_pc' = "score"
    /\ UNCHANGED <<b_task, store, model_params, initial_params, entry_value,
                   b_loss_fn, epoch, grad, best_val_score, final_test_score,
                   firstTest, opt_steps, evals, last_eval_steps, b_error, printed,
                   mainVars>>

\* the evaluation of the task giving (val_score, test_score), or ValueError;
\* then the best-score update, set_postfix and the loop's next iteration.
\* val_score and test_score are locals that are assigned again before any
\* later read, so they are bound here and are not state.
Score ==
    /\ b_pc = "score"
    /\ IF EvalBranch(b_task) = "ValueError"
       THEN /\ b_error' = "ValueError"
            /\ b_pc' = "raised"
            /\ UNCHANGED <<best_val_score, final_test_score, firstTest, evals,
                           last_eval_steps, epochLog, epoch>>
       ELSE \E val_score \in ValScores, test_score \in TestScores :
            /\ LET t == TrackBest(best_val_score, final_test_score,
                                  val_score, test_score)
               IN /\ best_val_score' = t[1]
                  /\ final_test_score' = t[2]
            /\ firstTest' = IF firstTest[val_score] = NoScore
                            THEN [firstTest EXCEPT ![val_score] = test_score]
                            ELSE firstTest
            /\ evals' = evals + 1
            /\ last_eval_steps' = opt_steps
            /\ epochLog' = Append(epochLog, "score")
            /\ IF RangeHasNext(epoch + 1)
               THEN epoch' = epoch + 1 /\ b_pc' = "train"
               ELSE epoch' = epoch /\ b_pc' = "restore"
            /\ UNCHANGED b_error
    /\ UNCHANGED <<b_task, store, model_params, initial_params, entry_value,
                   b_loss_fn, mode, grad, opt_steps, printed, mainVars>>

\* model.load_state_dict(initial_params)
Restore ==
    /\ b_pc = "restore"
    /\ store' = load_state_dict(store, model_params, initial_params)
    /\ b_pc' = "print"
    /\ UNCHANGED <<b_task, model_params, initial_params, entry_value, b_loss_fn,
                   epoch, mode, grad, best_val_score, final_test_score, firstTest,
                   opt_steps, evals, last_eval_steps, epochLog, b_error, printed,
                   mainVars>>

\* print("[BASELINE] Final test performance:", final_test_score)
PrintFinal ==
    /\ b_pc = "print"
    /\ printed' = final_test_score
    /\ b_pc' = "returned"
    /\ UNCHANGED <<b_task, store, model_params, initial_params, entry_value,
                   b_loss_fn, epoch, mode, grad, best_val_score, final_test_score,
                   firstTest, opt_steps, evals, last_eval_steps, epochLog, b_error,
                   mainVars>>

BaselineNext ==
    \/ Enter
    \/ Train
    \/ ZeroGrad
    \/ Forward
    \/ Backward
    \/ Step
    \/ EvalMode
    \/ Score
    \/ Restore
    \/ PrintFinal

BaselineSpec == BaselineInit /\ [][BaselineNext]_vars

\* the interpreter runs one thread and every statement completes
FairBaselineSpec == BaselineSpec /\ WF_vars(BaselineNext)

\* ------------------------------------------------------------------------
\* Properties
\* ------------------------------------------------------------------------
Supported(task) == task \in {"node_classification", "link_prediction"}
BCE == "binary_cross_entropy_with_logits"
CE == "cross_entropy"
\* the GNN inside a module (the module itself unless it is a LinkPredictor)
InnerModel(m) == IF m.cls = "LinkPredictor" THEN m.model ELSE m
Before(a, b) ==
    \E i, j \in 1..Len(trace) : i < j /\ trace[i] = a /\ trace[j] = b
PastBuild == {"wrap", "loss", "construct", "prune", "done", "raised"}
EpochCalls == <<"train", "zero_grad", "forward", "backward", "step", "eval", "score">>
IsPrefix(s, t) == Len(s) <= Len(t) /\ \A i \in 1..Len(s) : s[i] = t[i]
SeenVals == { v \in ValScores : firstTest[v] /= NoScore }
MaxOf(S) == CHOOSE x \in S : \A y \in S : y <= x
ParamsAsAtEntry == \A n \in ParamNames : store[model_params[n]] = entry_value

\* C1: whenever the script has invoked GLTSearch.prune(), the steps before it
\* were parse args, load dataset, build model, (wrap), baseline training, in
\* this order, and baseline() had run and returned before prune() was invoked.
C1_BaselineBeforePrune ==
    "prune" \in Range(trace) =>
        /\ Before("parse_args", "load_dataset")
        /\ Before("load_dataset", "build_model")
        /\ Before("build_model", "baseline")
        /\ Before("baseline", "GLTSearch")
        /\ Before("baseline", "prune")

\* C2: when the parsed --task is neither "node_classification" nor
\* "link_prediction" (None included), the script never constructs GLTSearch
\* and never calls prune().
C2_UnsupportedTaskRaises ==
    (m_pc /= "parse" /\ ~Supported(args.task)) =>
        /\ ~trainer.constructed
        /\ "GLTSearch" \notin Range(trace)
        /\ "prune" \notin Range(trace)

\* C3: once the model selection has run, a --model value that is "gcn", "gin"
\* or "gat" in any letter case has built exactly that one model (one
\* constructor call, no error); any other value has raised ValueError, built
\* and wrapped nothing, constructed no GLTSearch and called no prune().
C3_ModelSelection ==
    m_pc \in PastBuild =>
        /\ args.model \in CaseVariants(gcn) =>
             ctor_calls = <<"GCN">> /\ InnerModel(gnn) = [cls |-> "GCN"] /\ m_error = "none"
        /\ args.model \in CaseVariants(gin) =>
             ctor_calls = <<"GIN">> /\ InnerModel(gnn) = [cls |-> "GIN"] /\ m_error = "none"
        /\ args.model \in CaseVariants(gat) =>
             ctor_calls = <<"GAT">> /\ InnerModel(gnn) = [cls |-> "GAT"] /\ m_error = "none"
        /\ args.model \notin (CaseVariants(gcn) \cup CaseVariants(gin) \cup CaseVariants(gat)) =>
             /\ m_pc = "raised"
             /\ m_error = "ValueError"
             /\ ctor_calls = <<>>
             /\ gnn = NoModule
             /\ ~trainer.constructed
             /\ {"wrap", "GLTSearch", "prune"} \cap Range(trace) = {}

C3_Witness ==
    /\ m_pc = "done"
    /\ args.model = <<"G", "a", "T">>
    /\ ctor_calls = <<"GAT">>

\* C4: the graph has the attributes edges and edge_labels, set by
\* generate_edge_data() before the model is built, exactly when task is
\* "link_prediction"; the module handed to GLTSearch is LinkPredictor(GNN)
\* exactly when task is "link_prediction" and the bare GNN otherwise.
C4_LinkPredictionAdaptation ==
    /\ m_pc \notin {"parse", "load", "edge_data"} =>
         /\ args.task = "link_prediction" => data.attrs = {"edges", "edge_labels"}
         /\ args.task /= "link_prediction" =>
              data.attrs = {} /\ "generate_edge_data" \notin Range(trace)
    /\ (gnn /= NoModule /\ args.task = "link_prediction") =>
         Before("generate_edge_data", "build_model")
    /\ trainer.constructed =>
         /\ trainer.graph = data
         /\ args.task = "link_prediction" =>
              trainer.module = [cls |-> "LinkPredictor",
                                model |-> [cls |-> ctor_calls[1]]]
         /\ args.task /= "link_prediction" =>
              trainer.module = [cls |-> ctor_calls[1]]

C4_Witness ==
    /\ trainer.constructed
    /\ args.task = "link_prediction"
    /\ trainer.module.cls = "LinkPredictor"
    /\ "edges" \in trainer.graph.attrs

\* C5: when baseline() has returned (or is about to print), every parameter
\* of the model has the contents it had when baseline() was called.
C5_ParamsRestored ==
    b_pc \in {"print", "returned"} => ParamsAsAtEntry

\* C6: after generate_edge_data(), edges and edge_labels have the same
\* length, edges plus sampled negatives, and label i is 1 exactly when column
\* i of edges is an original edge and 0 exactly when it is a negative edge.
C6_EdgeLabelsAligned ==
    "edges" \in data.attrs =>
        /\ Len(data.edges) = Len(data.edge_labels)
        /\ Len(data.edges) >= Len(data.edge_index)
        /\ \A i \in 1..Len(data.edges) :
             /\ data.edge_labels[i] = 1 <=> data.edges[i] \in Range(data.edge_index)
             /\ data.edge_labels[i] = 0 <=> data.edges[i] \notin Range(data.edge_index)

\* C7: baseline() with an unsupported task never gets past the first epoch's
\* task branch: it makes no forward pass, backward() or step(), changes no
\* parameter, never reaches load_state_dict or print, and the only exception
\* it raises is ValueError.
C7_UnsupportedTaskRaisesEarly ==
    ~Supported(b_task) =>
        /\ b_pc \in {"enter", "train", "zero_grad", "forward", "raised"}
        /\ epoch = 0 /\ opt_steps = 0 /\ evals = 0
        /\ grad /= "computed"
        /\ {"forward", "backward", "step", "score"} \cap Range(epochLog) = {}
        /\ ParamsAsAtEntry
        /\ printed = NoScore
        /\ (b_pc = "raised") <=> (b_error = "ValueError")
        /\ b_error \in {"none", "ValueError"}

C7_Witness ==
    /\ ~Supported(b_task)
    /\ b_pc = "raised"
    /\ b_error = "ValueError"
    /\ epochLog = <<"train", "zero_grad">>

\* C8: after every epoch best_val_score is the maximum of 0 and the
\* validation scores seen so far, final_test_score is the test score of the
\* earliest epoch that had that maximum (0 when no validation score was
\* above 0), and the value printed at the end is that final_test_score.
C8_BestScoreTracking ==
    LET m == MaxOf({0} \cup SeenVals)
        expected == IF m > 0 THEN firstTest[m] ELSE 0
    IN /\ b_pc /= "enter" =>
            best_val_score = m /\ final_test_score = expected
       /\ b_pc = "returned" => printed = expected

C8_Witness ==
    /\ b_pc = "returned"
    /\ firstTest[1] = 1
    /\ firstTest[2] = 0
    /\ best_val_score = 2
    /\ printed = 0

\* C9: the script's loss_fn, and the one handed to GLTSearch, is
\* binary_cross_entropy_with_logits exactly when task is "link_prediction"
\* and cross_entropy for every other task, and it is the loss_fn baseline()
\* chooses for the same task.
C9_SameLossFn ==
    /\ \A t \in Tasks :
         BaselineLossFn(t) = IF t = "link_prediction" THEN BCE ELSE CE
    /\ m_pc \in {"construct", "prune", "done"} =>
         /\ loss_fn = BCE <=> args.task = "link_prediction"
         /\ loss_fn = CE <=> args.task /= "link_prediction"
         /\ loss_fn = BaselineLossFn(args.task)
    /\ trainer.constructed => trainer.loss_fn = BaselineLossFn(args.task)

C9_Witness ==
    /\ trainer.constructed
    /\ args.task = NoneTask
    /\ trainer.loss_fn = CE

\* C10 (state part): for a supported task the calls of each epoch are, in
\* order, train, zero_grad, forward, backward, step, eval, score; the k-th
\* evaluation sees the parameters after k optimizer steps; when the loop has
\* ended there were exactly 200 steps and 200 evaluations and the model is
\* in eval mode; no exception is raised.
C10_EpochOrder ==
    Supported(b_task) =>
        /\ b_pc /= "raised" /\ b_error = "none"
        /\ IsPrefix(epochLog, EpochCalls)
        /\ (b_pc = "train" /\ epoch > 0) => epochLog = EpochCalls
        /\ b_pc \in {"train", "zero_grad", "forward", "backward", "step"} =>
             epoch < 200 /\ opt_steps = epoch /\ evals = epoch
        /\ b_pc \in {"eval", "score"} =>
             epoch < 200 /\ opt_steps = epoch + 1 /\ evals = epoch
        /\ evals > 0 => last_eval_steps = evals
        /\ b_pc \in {"restore", "print", "returned"} =>
             /\ opt_steps = 200
             /\ evals = 200
             /\ epoch = 199
             /\ epochLog = EpochCalls
             /\ mode = "eval"

\* C10: for a supported task baseline() always terminates, after exactly 200
\* epochs each made of train, zero_grad, forward, backward, step, eval and one
\* evaluation in this order, with the model left in eval mode.
C10_TerminatesAfter200Epochs ==
    /\ []C10_EpochOrder
    /\ (Supported(b_task) ~> (b_pc = "returned" /\ opt_steps = 200 /\ evals = 200))

C10_Witness ==
    /\ Supported(b_task)
    /\ b_pc = "returned"
    /\ opt_steps = 200
    /\ evals = 200
    /\ mode = "eval"

====
